---- MODULE Spec2Model ----
(***************************************************************************)
(* bucc_secco::SanitizedPath::sanitize (src/bucc_secco/src/lib.rs).        *)
(*                                                                         *)
(* A path is the sequence of its bytes; every byte is a one-element token  *)
(* ("/" the separator, "." the dot, NUL the zero byte, anything else a     *)
(* name byte).  The std::path primitives the function calls are modelled   *)
(* as they behave on a cfg(unix) target: Path::components, Path::iter,     *)
(* PathBuf::push / FromIterator and Path::join.  On such a target          *)
(* components() never yields Component::Prefix; the Prefix arm of the      *)
(* closure is modelled all the same.                                       *)
(*                                                                         *)
(* Of the two cfg switches of the function, debug_assertions is a variable  *)
(* fixed by Init.  cfg(fail_on_nul_byte) is set in no build: with it line   *)
(* 17 is ill-typed (from_raw_os_error wants an i32), so lines 15-18 are     *)
(* never part of the program and fail_on_nul_byte is FALSE.                 *)
(*                                                                         *)
(* Line 41, `normal.()`, names no method, so the source does not say what   *)
(* the Normal arm makes of a segment and no build exists until the line is  *)
(* completed.  The repository backs two completions, and a build (variable  *)
(* line41, fixed by Init) has one of them: the segment is handed on as it   *)
(* came (line 42 emits the binding of line 40), or the segment "\0" is      *)
(* erased, which is what the test nul_byte_erase (lines 102-107) asserts.   *)
(***************************************************************************)
EXTENDS Integers, Sequences, FiniteSets, TLC

VARIABLES
    path,              \* the raw `path` argument (bytes)
    base_path,         \* Option: <<>> is None, <<b>> is Some(b)
    line41,            \* the completion of line 41 the build holds
    debug_assertions,  \* cfg(debug_assertions)
    pc,                \* position inside sanitize
    iter,              \* components not yet pulled from path.components()
    depth,             \* the state of the scan adaptor
    yielded,           \* what the scan closure returned so far
    buf,               \* the PathBuf under collect()
    cleaned_path,      \* Option: the collected PathBuf
    final_path,        \* Option: final_path of line 50
    outcome            \* "none" | "Ok" | "Panic"

vars == <<path, base_path, line41, debug_assertions, pc, iter, depth,
          yielded, buf, cleaned_path, final_path, outcome>>

----------------------------------------------------------------------------
(* Bytes and bounds *)

MaxLen == 5

SEP == "/"
DOT == "."
NUL == "NUL"

Alphabet == {SEP, DOT, NUL, "a", "b"}

SeqsUpTo(S, n) == UNION {[1..k -> S] : k \in 0..n}

\* "a/b/../c"
NestedAscentPath == <<"a", "/", "b", "/", ".", ".", "/", "c">>
\* "a/b/../../../c"
LotsOfParentsPath ==
    <<"a", "/", "b", "/", ".", ".", "/", ".", ".", "/", ".", ".", "/", "c">>
\* "../../etc/passwd"
EtcPasswdPath ==
    <<".", ".", "/", ".", ".", "/", "e", "t", "c", "/", "p", "a", "s", "s", "w", "d">>
\* ".config/\0/nvim"
NUL_PATH ==
    <<".", "c", "o", "n", "f", "i", "g", "/", NUL, "/", "n", "v", "i", "m">>
\* "/safe/dir"
SafeDir == <<"/", "s", "a", "f", "e", "/", "d", "i", "r">>

ExamplePaths == {NestedAscentPath, LotsOfParentsPath, EtcPasswdPath, NUL_PATH}

RawPaths == SeqsUpTo(Alphabet, MaxLen) \cup ExamplePaths

BasePaths == {<<>>, <<"b", "/">>, SafeDir}

\* cfg(fail_on_nul_byte): set in no build, line 17 does not type-check with it.
fail_on_nul_byte == FALSE

\* The completions of line 41 the repository backs: "unchanged", the segment
\* bound at line 40 is the one line 42 emits; "nul_segment_emptied", the
\* segment "\0" is emitted empty, the one value of the call with which
\* lines 42-54 return what tests::nul_byte_erase asserts.
Line41Completions == {"unchanged", "nul_segment_emptied"}

\* The builds: lines 15-18 compiled out, the assertion of lines 56-57 compiled
\* in or out, line 41 completed one way or the other.
Builds == {b \in [fail_on_nul_byte : BOOLEAN, debug_assertions : BOOLEAN,
                  line41 : Line41Completions] :
               b.fail_on_nul_byte = fail_on_nul_byte}

----------------------------------------------------------------------------
(* std::path, cfg(unix) *)

None == <<>>
Some(x) == <<x>>

RootDir == [kind |-> "RootDir", name |-> <<>>]
CurDir == [kind |-> "CurDir", name |-> <<>>]
ParentDir == [kind |-> "ParentDir", name |-> <<>>]
Normal(n) == [kind |-> "Normal", name |-> n]
Prefix == [kind |-> "Prefix", name |-> <<>>]

\* Component::as_os_str
as_os_str(c) ==
    CASE c.kind = "RootDir" -> <<SEP>>
      [] c.kind = "CurDir" -> <<DOT>>
      [] c.kind = "ParentDir" -> <<DOT, DOT>>
      [] c.kind = "Normal" -> c.name
      [] c.kind = "Prefix" -> <<>>

\* Index of the first separator of p, Len(p) + 1 when there is none.
FirstSep(p) ==
    CHOOSE i \in 1..(Len(p) + 1) :
        /\ i = Len(p) + 1 \/ p[i] = SEP
        /\ \A j \in 1..(i - 1) : p[j] # SEP

\* Components::parse_single_component: "" and "." yield nothing in the body.
parse_single_component(seg) ==
    IF seg = <<>> \/ seg = <<DOT>> THEN None
    ELSE IF seg = <<DOT, DOT>> THEN Some(ParentDir)
    ELSE Some(Normal(seg))

\* The Body state of the Components iterator.
RECURSIVE ParseBody(_)
ParseBody(p) ==
    IF p = <<>> THEN <<>>
    ELSE LET n == FirstSep(p)
         IN parse_single_component(SubSeq(p, 1, n - 1))
                \o ParseBody(SubSeq(p, n + 1, Len(p)))

has_root(p) == Len(p) > 0 /\ p[1] = SEP

include_cur_dir(p) ==
    /\ ~has_root(p)
    /\ Len(p) > 0
    /\ p[1] = DOT
    /\ Len(p) = 1 \/ p[2] = SEP

\* Path::components, collected.
Components(p) ==
    IF has_root(p) THEN <<RootDir>> \o ParseBody(Tail(p))
    ELSE IF include_cur_dir(p) THEN <<CurDir>> \o ParseBody(Tail(p))
    ELSE ParseBody(p)

\* PathBuf::new(), what collect() starts from.
PathBuf_new == <<>>

\* PathBuf::push: an absolute argument replaces self, otherwise it is appended
\* after a separator when self does not already end in one.
push(self, p) ==
    LET need_sep == Len(self) > 0 /\ self[Len(self)] # SEP
    IN IF has_root(p) THEN p
       ELSE IF need_sep THEN self \o <<SEP>> \o p
       ELSE self \o p

\* Path::join
join(self, p) == push(self, p)

\* any_nul_bytes: some element of Path::iter equals "\0".
any_nul_bytes(p) ==
    \E i \in 1..Len(Components(p)) : as_os_str(Components(p)[i]) = <<NUL>>

----------------------------------------------------------------------------
(* sanitize *)

\* Lines 41-42: the segment bound by the pattern Component::Normal(normal) is
\* rebound by the call of line 41 and handed to Component::Normal at line
\* 42; h is the completion of line 41 the build holds.
normal_call(h, n) ==
    CASE h = "unchanged" -> n
      [] h = "nul_segment_emptied" -> IF n = <<NUL>> THEN <<>> ELSE n

\* What one call of the scan closure does: `state` is the state the adaptor
\* holds afterwards, (d, c) the tuple the closure returns.
scan_item(st, d, c) == [state |-> st, item |-> [depth |-> d, component |-> c]]

\* Variant of closure: the root anchor is passed on as it is.
closure_root_kept(h, st, component) ==
    CASE component.kind = "RootDir" -> scan_item(st, st, Some(RootDir))
      [] component.kind = "CurDir" -> scan_item(st, st, Some(CurDir))
      [] component.kind = "ParentDir" ->
            IF st - 1 >= 0
            THEN scan_item(st, st - 1, Some(ParentDir))
            ELSE scan_item(st, st, None)
      [] component.kind = "Normal" ->
            scan_item(st, st, Some(Normal(normal_call(h, component.name))))
      [] component.kind = "Prefix" -> scan_item(st, st, Some(CurDir))

\* Variant of closure: the root anchor is filtered out instead of being
\* turned into a current-directory marker.
closure_root_dropped(h, st, component) ==
    CASE component.kind = "RootDir" -> scan_item(st, st, None)
      [] component.kind = "CurDir" -> scan_item(st, st, Some(CurDir))
      [] component.kind = "ParentDir" ->
            IF st - 1 >= 0
            THEN scan_item(st, st - 1, Some(ParentDir))
            ELSE scan_item(st, st, None)
      [] component.kind = "Normal" ->
            scan_item(st, st, Some(Normal(normal_call(h, component.name))))
      [] component.kind = "Prefix" -> scan_item(st, st, Some(CurDir))

\* Variant of closure: a parent-directory marker is passed on whatever the
\* depth.
closure_parent_kept(h, st, component) ==
    CASE component.kind \in {"RootDir", "CurDir"} -> scan_item(st, st, Some(CurDir))
      [] component.kind = "ParentDir" -> scan_item(st, st, Some(ParentDir))
      [] component.kind = "Normal" ->
            scan_item(st, st, Some(Normal(normal_call(h, component.name))))
      [] component.kind = "Prefix" -> scan_item(st, st, Some(CurDir))

\* Variant of closure: the root anchor becomes a current-directory marker
\* but a current-directory marker of the input is filtered out.
closure_curdir_dropped(h, st, component) ==
    CASE component.kind = "RootDir" -> scan_item(st, st, Some(CurDir))
      [] component.kind = "CurDir" -> scan_item(st, st, None)
      [] component.kind = "ParentDir" ->
            IF st - 1 >= 0
            THEN scan_item(st, st - 1, Some(ParentDir))
            ELSE scan_item(st, st, None)
      [] component.kind = "Normal" ->
            scan_item(st, st, Some(Normal(normal_call(h, component.name))))
      [] component.kind = "Prefix" -> scan_item(st, st, Some(CurDir))

\* The scan closure, lines 23-46.  Its parameter pattern `&mut depth` copies
\* the scan state into a local, so no arm writes the state; the Normal arm
\* returns the depth it was given and the segment line 41 made of the one
\* it was called on.
\* checked_sub(1) on a u64 is Some exactly when the depth is at least 1.
closure(h, st, component) ==
    CASE component.kind \in {"RootDir", "CurDir"} -> scan_item(st, st, Some(CurDir))
      [] component.kind = "ParentDir" ->
            IF st - 1 >= 0
            THEN scan_item(st, st - 1, Some(ParentDir))
            ELSE scan_item(st, st, None)
      [] component.kind = "Normal" ->
            scan_item(st, st, Some(Normal(normal_call(h, component.name))))
      [] component.kind = "Prefix" -> scan_item(st, st, Some(CurDir))

\* filter_map(|(_, component)| component) feeding FromIterator for PathBuf.
collect_one(b, item) ==
    IF item.component = None THEN b ELSE push(b, as_os_str(item.component[1]))

\* Lines 50-54: the base, when given, is joined in front of the cleaned path.
final_of(base, cleaned) ==
    IF base # None THEN join(base[1], cleaned) ELSE cleaned

\* Lines 20-48 as one function: scan, filter_map and collect over a component
\* sequence, st being the scan state and b the PathBuf built so far.
RECURSIVE scan_collect(_, _, _, _)
scan_collect(h, st, comps, b) ==
    IF comps = <<>> THEN b
    ELSE LET r == closure(h, st, Head(comps))
         IN scan_collect(h, r.state, Tail(comps), collect_one(b, r.item))

\* The path sanitize computes for (p, base), lines 20-54, in a build whose
\* line 41 is h.
sanitize_path(h, p, base) ==
    final_of(base, scan_collect(h, 0, Components(p), PathBuf_new))

\* The state of one call of sanitize.
TypeOK ==
    /\ line41 \in Line41Completions
    /\ debug_assertions \in BOOLEAN
    /\ pc \in {"start", "scan", "join", "assert", "done"}
    /\ outcome \in {"none", "Ok", "Panic"}
    /\ outcome # "none" <=> pc = "done"
    /\ depth = 0
    /\ Len(base_path) <= 1 /\ Len(cleaned_path) <= 1 /\ Len(final_path) <= 1
    /\ cleaned_path # None <=> pc \in {"join", "assert", "done"}
    /\ final_path # None <=> pc \in {"assert", "done"}
    /\ Len(yielded) + Len(iter) = (IF pc = "start" THEN 0 ELSE Len(Components(path)))

Init ==
    /\ path \in RawPaths
    /\ base_path \in {None} \cup {Some(b) : b \in BasePaths}
    /\ \E b \in Builds : debug_assertions = b.debug_assertions /\ line41 = b.line41
    /\ pc = "start"
    /\ iter = <<>>
    /\ depth = 0
    /\ yielded = <<>>
    /\ buf = PathBuf_new
    /\ cleaned_path = None
    /\ final_path = None
    /\ outcome = "none"

\* Lines 20-23 (lines 15-18 are compiled out): the iterator chain is built.
StartScan ==
    /\ pc = "start"
    /\ pc' = "scan"
    /\ iter' = Components(path)
    /\ depth' = 0
    /\ UNCHANGED <<path, base_path, line41, debug_assertions,
                   yielded, buf, cleaned_path, final_path, outcome>>

\* Lines 23-48: collect() pulls one component through scan and filter_map and
\* pushes what is left onto the PathBuf.
ScanNext ==
    /\ pc = "scan"
    /\ iter # <<>>
    /\ LET r == closure(line41, depth, Head(iter))
       IN /\ depth' = r.state
          /\ yielded' = Append(yielded, r.item)
          /\ buf' = collect_one(buf, r.item)
    /\ iter' = Tail(iter)
    /\ UNCHANGED <<path, base_path, line41, debug_assertions, pc,
                   cleaned_path, final_path, outcome>>

\* Line 48: the iterator is exhausted, collect() returns.
Collect ==
    /\ pc = "scan"
    /\ iter = <<>>
    /\ cleaned_path' = Some(buf)
    /\ pc' = "join"
    /\ UNCHANGED <<path, base_path, line41, debug_assertions, iter,
                   depth, yielded, buf, final_path, outcome>>

\* Lines 50-54.
Join ==
    /\ pc = "join"
    /\ final_path' = Some(final_of(base_path, cleaned_path[1]))
    /\ pc' = "assert"
    /\ UNCHANGED <<path, base_path, line41, debug_assertions, iter,
                   depth, yielded, buf, cleaned_path, outcome>>

\* Lines 56-57: assert!(any_nul_bytes(&final_path)) fails.
AssertPanic ==
    /\ pc = "assert"
    /\ debug_assertions /\ ~any_nul_bytes(final_path[1])
    /\ outcome' = "Panic"
    /\ pc' = "done"
    /\ UNCHANGED <<path, base_path, line41, debug_assertions, iter,
                   depth, yielded, buf, cleaned_path, final_path>>

\* Line 59: Ok(SanitizedPath(final_path)).
Return ==
    /\ pc = "assert"
    /\ debug_assertions => any_nul_bytes(final_path[1])
    /\ outcome' = "Ok"
    /\ pc' = "done"
    /\ UNCHANGED <<path, base_path, line41, debug_assertions, iter,
                   depth, yielded, buf, cleaned_path, final_path>>

Next == StartScan \/ ScanNext \/ Collect \/ Join \/ AssertPanic \/ Return

Spec == Init /\ [][Next]_vars
----------------------------------------------------------------------------
(* Vocabulary of the properties *)

\* The components that came out of filter_map so far.
Emitted ==
    LET ys == SelectSeq(yielded, LAMBDA y : y.component # None)
    IN [i \in 1..Len(ys) |-> ys[i].component[1]]

\* The components of the input the closure has been called on so far.
Consumed == SubSeq(Components(path), 1, Len(yielded))

Count(cs, kind, k) == Cardinality({i \in 1..k : cs[i].kind = kind})

\* No anchor, no prefix, and never more ascents than descents in any prefix.
NoEscape(cs) ==
    \A k \in 1..Len(cs) :
        /\ cs[k].kind \notin {"RootDir", "Prefix"}
        /\ Count(cs, "ParentDir", k) <= Count(cs, "Normal", k)

IsPrefixOf(a, b) == Len(a) <= Len(b) /\ SubSeq(b, 1, Len(a)) = a

NormalsOf(cs) == SelectSeq(cs, LAMBDA c : c.kind = "Normal")

NoCurDir(cs) == SelectSeq(cs, LAMBDA c : c.kind # "CurDir")

HasNulByte(p) == \E i \in 1..Len(p) : p[i] = NUL

\* Lexical resolution: a normal segment descends, ".." leaves the last one.
RECURSIVE Resolve(_, _)
Resolve(cs, acc) ==
    IF cs = <<>> THEN acc
    ELSE IF Head(cs).kind = "Normal" THEN Resolve(Tail(cs), Append(acc, Head(cs)))
    ELSE IF Head(cs).kind = "ParentDir" /\ acc # <<>>
         THEN Resolve(Tail(cs), SubSeq(acc, 1, Len(acc) - 1))
    ELSE Resolve(Tail(cs), acc)

BaseComponents == IF base_path = None THEN <<>> ELSE Components(base_path[1])

\* The step-by-step run and the function sanitize_path agree.
RunAgreesWithFunction ==
    final_path # None => final_path[1] = sanitize_path(line41, path, base_path)

----------------------------------------------------------------------------
(* Properties *)

\* C1 (no-escape): what sanitize emits has no root anchor and no
\* prefix, no prefix of it has more parent-directory markers than normal
\* segments, the same is true of the components of the cleaned path, and the
\* final path is the base followed by components that never ascend above it.
C1_NoEscape ==
    /\ NoEscape(Emitted)
    /\ cleaned_path # None => NoEscape(Components(cleaned_path[1]))
    /\ final_path # None =>
          LET f == Components(final_path[1])
          IN /\ IsPrefixOf(BaseComponents, f)
             /\ NoEscape(SubSeq(f, Len(BaseComponents) + 1, Len(f)))

\* C1 happens: an input that starts with a parent-directory marker and holds
\* a normal segment was joined to "/safe/dir".
C1_Witness ==
    /\ pc = "done"
    /\ final_path # None
    /\ base_path = Some(SafeDir)
    /\ Components(path) # <<>>
    /\ Head(Components(path)) = ParentDir
    /\ NormalsOf(Components(path)) # <<>>

\* C2 as claimed: sanitize fails exactly when hardened rejection is enabled
\* and the raw input holds a NUL byte, and in relaxed mode it always returns
\* Ok, with no error and no abort.
C2_FailsIffHardenedNul ==
    pc = "done" =>
        /\ outcome # "Ok" <=> (fail_on_nul_byte /\ HasNulByte(path))
        /\ ~fail_on_nul_byte => outcome = "Ok"

\* C3 as claimed: with a base, the components of the result are the
\* components of the base followed by exactly those of sanitize(path, None).
C3_BaseJoinExact ==
    (final_path # None /\ base_path # None) =>
        Components(final_path[1])
            = BaseComponents \o Components(sanitize_path(line41, path, None))

\* C3 amended: with a base, the components of the result are the components
\* of the base followed by those of sanitize(path, None) without its
\* current-directory marker (with it when the base is empty); the base is a
\* prefix of the result; without a base the result is sanitize(path, None);
\* and "../../etc/passwd" under "/safe/dir" is "/safe/dir/etc/passwd".
C3_BaseJoinAmended ==
    final_path # None =>
        LET clean == Components(sanitize_path(line41, path, None))
            f == Components(final_path[1])
        IN /\ base_path = None => final_path[1] = sanitize_path(line41, path, None)
           /\ base_path # None =>
                 /\ f = BaseComponents
                          \o (IF BaseComponents = <<>> THEN clean ELSE NoCurDir(clean))
                 /\ IsPrefixOf(BaseComponents, f)
           /\ (path = EtcPasswdPath /\ base_path = Some(SafeDir)) =>
                 final_path[1] = SafeDir \o <<"/", "e", "t", "c", "/",
                                              "p", "a", "s", "s", "w", "d">>

\* C3 happens: an absolute input with a normal segment was joined to
\* "/safe/dir".
C3_Witness ==
    /\ pc = "done"
    /\ final_path # None
    /\ base_path = Some(SafeDir)
    /\ has_root(path)
    /\ NormalsOf(Components(path)) # <<>>

\* C4 (idempotence): sanitizing the cleaned path again, with no
\* base, gives the cleaned path back as a component sequence.
C4_Idempotent ==
    cleaned_path # None =>
        Components(sanitize_path(line41, cleaned_path[1], None))
            = Components(cleaned_path[1])

\* C4 happens: an absolute input with a parent-directory marker and a normal
\* segment was cleaned into a path that is not the input.
C4_Witness ==
    /\ pc = "done"
    /\ cleaned_path # None
    /\ has_root(path)
    /\ \E i \in 1..Len(Components(path)) : Components(path)[i] = ParentDir
    /\ NormalsOf(Components(path)) # <<>>
    /\ cleaned_path[1] # path

\* C5 as claimed: for a relative path, the result for the path with a root
\* anchor in front has the same components as the result for the path.
C5_RootStrippingExact ==
    (final_path # None /\ ~has_root(path)) =>
        Components(sanitize_path(line41, <<SEP>> \o path, base_path))
            = Components(final_path[1])

\* C5 amended: the two results have the same components once the
\* current-directory markers are left out; they are equal when a non-empty
\* base is given, and otherwise the result for the anchored path is a
\* current-directory marker followed by the other components of the result
\* for the relative path.
C5_RootStrippingAmended ==
    (final_path # None /\ ~has_root(path)) =>
        LET abs == Components(sanitize_path(line41, <<SEP>> \o path, base_path))
            rel == Components(final_path[1])
        IN /\ NoCurDir(abs) = NoCurDir(rel)
           /\ (base_path # None /\ base_path[1] # <<>>) => abs = rel
           /\ (base_path = None \/ base_path = Some(<<>>)) =>
                 abs = <<CurDir>> \o NoCurDir(rel)

\* C5 happens: a relative input with a normal segment was sanitized with no
\* base and returned.
C5_Witness ==
    /\ pc = "done"
    /\ outcome = "Ok"
    /\ base_path = None
    /\ ~has_root(path)
    /\ NormalsOf(Components(path)) # <<>>

\* C6 as claimed: the cleaned path of "a/b/../c" resolves to a/c, and that of
\* "a/b/../../../c" to c.
C6_AscentResolution ==
    cleaned_path # None =>
        /\ path = NestedAscentPath =>
              Resolve(Components(cleaned_path[1]), <<>>)
                  = <<Normal(<<"a">>), Normal(<<"c">>)>>
        /\ path = LotsOfParentsPath =>
              Resolve(Components(cleaned_path[1]), <<>>) = <<Normal(<<"c">>)>>

\* C7 as claimed: in relaxed mode ".config/\0/nvim" is returned as
\* ".config/nvim".
C7_NulErasure ==
    (pc = "done" /\ path = NUL_PATH /\ ~fail_on_nul_byte /\ base_path = None) =>
        /\ outcome = "Ok"
        /\ final_path = Some(<<".", "c", "o", "n", "f", "i", "g", "/",
                               "n", "v", "i", "m">>)

\* tests::nul_byte_erase replayed: a build whose line 41 erases the segment
\* "\0" returns ".config/nvim" where the assertion of line 57 is compiled
\* out and panics where it is compiled in; a build whose line 41 hands the
\* segment on returns ".config/\0/nvim".
NulByteEraseReplayed ==
    (pc = "done" /\ path = NUL_PATH /\ base_path = None) =>
        CASE line41 = "nul_segment_emptied" /\ ~debug_assertions ->
                 /\ outcome = "Ok"
                 /\ final_path = Some(<<".", "c", "o", "n", "f", "i", "g", "/",
                                        "n", "v", "i", "m">>)
          [] line41 = "nul_segment_emptied" /\ debug_assertions ->
                 outcome = "Panic"
          [] line41 = "unchanged" ->
                 /\ outcome = "Ok"
                 /\ final_path = Some(NUL_PATH)

\* C8 as claimed (empty input): the call on "" returns a SanitizedPath; its
\* cleaned path is empty and has no components; with no base the result is
\* empty, with a base it has exactly the components of the base.
C8_EmptyInput ==
    path = <<>> =>
        /\ pc = "done" => outcome = "Ok"
        /\ cleaned_path # None =>
              (cleaned_path[1] = <<>> /\ Components(cleaned_path[1]) = <<>>)
        /\ final_path # None =>
              IF base_path = None THEN final_path[1] = <<>>
              ELSE Components(final_path[1]) = Components(base_path[1])

\* C9 as claimed: while scanning, the depth is the number of normal segments
\* seen minus the number of parent-directory markers emitted, and a
\* parent-directory marker met after more normal segments than emitted
\* markers is emitted.
C9_DepthTracking ==
    pc = "scan" =>
        /\ depth = Count(Consumed, "Normal", Len(Consumed))
                     - Count(Emitted, "ParentDir", Len(Emitted))
        /\ \A i \in 1..Len(yielded) :
              (/\ Consumed[i] = ParentDir
               /\ Count(Consumed, "Normal", i) > Count(Consumed, "ParentDir", i - 1))
                  => yielded[i].component = Some(ParentDir)

\* C10 as claimed (normal segments preserved): the normal segments emitted
\* are those of the components consumed, in order; the normal segments of the
\* cleaned path are those of the input; the cleaned path has no more
\* components than the input.
C10_NormalsPreserved ==
    /\ NormalsOf(Emitted) = NormalsOf(Consumed)
    /\ cleaned_path # None =>
          /\ NormalsOf(Components(cleaned_path[1])) = NormalsOf(Components(path))
          /\ Len(Components(cleaned_path[1])) <= Len(Components(path))

\* What is left of C10: the normal segments are preserved in a build whose
\* line 41 hands the segment on, and in every build for an input without a
\* segment "\0".
NormalsPreservedApartFromLine41 ==
    (line41 = "unchanged" \/ Normal(<<NUL>>) \notin
         {Components(path)[i] : i \in 1..Len(Components(path))}) => C10_NormalsPreserved
====
